---- MODULE Spec2Model ----
(***************************************************************************)
(* A model of concat_files.py: the file classifier (should_process_file),  *)
(* the directory walker (build_file_list) and the concurrent aggregation   *)
(* of content blocks in main.                                              *)
(*                                                                         *)
(* Paths are sequences of names (the parts of an absolute, resolved        *)
(* pathlib.Path); a name is a string whose characters are given by Chars,  *)
(* so that fnmatch, suffixes and orderings are computed character by       *)
(* character.  The file system has no symbolic links, so Path.resolve()    *)
(* only makes a relative path absolute against the working directory.      *)
(***************************************************************************)
EXTENDS Naturals, Integers, Sequences, FiniteSets, TLC

VARIABLES
    cwd,                \* working directory of the process
    unreadable,         \* files whose open()/read() raises an OSError
    sink_faults,        \* stages at which opening the output document fails
    options,            \* the processing_options dictionary
    pc,                 \* position of main
    root_idx,           \* index of base_folder in the loop of build_file_list
    walk_stack,         \* directories os.walk still has to yield, top first
    files_to_process,   \* the set built by build_file_list
    file_to_base_map,   \* resolved file -> base folder it came from
    selection,          \* the sorted list build_file_list returns
    pending,            \* futures as_completed has not yielded yet
    processed_content,  \* the dict of main, as its items in insertion order
    skipped_count,
    doc,                \* the output document: the sections written so far
    probe               \* the last call of should_process_file made directly

vars == <<cwd, unreadable, sink_faults, options, pc, root_idx, walk_stack, files_to_process,
          file_to_base_map, selection, pending, processed_content,
          skipped_count, doc, probe>>

----------------------------------------------------------------------------
(* Bounds *)

\* the longest list of root folders given with -f
MaxRoots == 2

\* the longest list of files write_tree_structure is called with on its own
MaxTreeFiles == 4

----------------------------------------------------------------------------
(* Characters and strings *)

\* the characters in use, in code point order
Alphabet ==
    << "!", "*", ".", "/", "?", "A", "D", "E", "M", "R", "[", "]",
       "a", "b", "c", "d", "e", "g", "h", "i", "l", "m", "n", "o", "p",
       "r", "s", "t", "u", "w", "x", "y" >>

Ord == [c \in {Alphabet[i] : i \in 1..Len(Alphabet)} |->
          CHOOSE i \in 1..Len(Alphabet) : Alphabet[i] = c]

\* str.lower() on one character
LowerChar(c) ==
    CASE c = "A" -> "a" [] c = "D" -> "d" [] c = "E" -> "e"
      [] c = "M" -> "m" [] c = "R" -> "r" [] OTHER -> c

Lower(s) == [i \in 1..Len(s) |-> LowerChar(s[i])]

\* the characters of every string of the model
Chars ==
    ("" :> <<>>)
 @@ ("p" :> <<"p">>) @@ ("r" :> <<"r">>) @@ ("w" :> <<"w">>)
 @@ ("s" :> <<"s">>) @@ ("q" :> <<"q">>)
 @@ ("x" :> <<"x">>) @@ ("y" :> <<"y">>)
 @@ ("src" :> <<"s", "r", "c">>)
 @@ ("build" :> <<"b", "u", "i", "l", "d">>)
 @@ (".hidden" :> <<".", "h", "i", "d", "d", "e", "n">>)
 @@ (".env" :> <<".", "e", "n", "v">>)
 @@ ("main.py" :> <<"m", "a", "i", "n", ".", "p", "y">>)
 @@ ("ignored.py" :> <<"i", "g", "n", "o", "r", "e", "d", ".", "p", "y">>)
 @@ ("README.md" :> <<"R", "E", "A", "D", "M", "E", ".", "m", "d">>)
 @@ ("out.bin" :> <<"o", "u", "t", ".", "b", "i", "n">>)
 @@ ("codebase.md" :> <<"c", "o", "d", "e", "b", "a", "s", "e", ".", "m", "d">>)
 @@ ("py" :> <<"p", "y">>) @@ ("md" :> <<"m", "d">>)
 @@ ("bin" :> <<"b", "i", "n">>) @@ ("txt" :> <<"t", "x", "t">>)
 @@ ("b*" :> <<"b", "*">>)
 @@ ("[b]uild" :> <<"[", "b", "]", "u", "i", "l", "d">>)
 @@ ("m*" :> <<"m", "*">>)
 @@ ("*.py" :> <<"*", ".", "p", "y">>)
 @@ ("*.md" :> <<"*", ".", "m", "d">>)
 @@ ("src/*" :> <<"s", "r", "c", "/", "*">>)
 @@ ("?ain.py" :> <<"?", "a", "i", "n", ".", "p", "y">>)

\* "." in s
Contains(s, c) == \E i \in 1..Len(s) : s[i] = c

\* s.startswith(".")
StartsWithDot(s) == Len(s) >= 1 /\ s[1] = "."

\* s < t for str: by code points, a proper prefix first
RECURSIVE StrLess(_, _)
StrLess(s, t) ==
    IF t = <<>> THEN FALSE
    ELSE IF s = <<>> THEN TRUE
    ELSE IF s[1] # t[1] THEN Ord[s[1]] < Ord[t[1]]
    ELSE StrLess(Tail(s), Tail(t))

Min(S) == CHOOSE x \in S : \A y \in S : x <= y

\* fnmatch.translate: the index in p (which starts with "[") of the "]" that
\* closes the character class, 0 when there is none
BracketEnd(p) ==
    LET afterBang == IF Len(p) >= 2 /\ p[2] = "!" THEN 3 ELSE 2
        first == IF Len(p) >= afterBang /\ p[afterBang] = "]"
                 THEN afterBang + 1 ELSE afterBang
        close == {j \in first..Len(p) : p[j] = "]"}
    IN  IF close = {} THEN 0 ELSE Min(close)

\* fnmatch.fnmatch(s, p) on POSIX (normcase is the identity): "*" matches any
\* run of characters, "/" included, "?" one character, "[seq]" and "[!seq]"
\* one character in or not in seq (no pattern of the model has a range)
RECURSIVE fnmatch(_, _)
fnmatch(s, p) ==
    IF p = <<>> THEN s = <<>>
    ELSE IF p[1] = "*"
        THEN fnmatch(s, Tail(p)) \/ (s # <<>> /\ fnmatch(Tail(s), p))
    ELSE IF p[1] = "?"
        THEN s # <<>> /\ fnmatch(Tail(s), Tail(p))
    ELSE IF p[1] = "[" /\ BracketEnd(p) # 0
        THEN LET j == BracketEnd(p)
                 negated == p[2] = "!"
                 lo == IF negated THEN 3 ELSE 2
                 class == {p[k] : k \in lo..(j - 1)}
             IN  /\ s # <<>>
                 /\ (s[1] \in class) # negated
                 /\ fnmatch(Tail(s), SubSeq(p, j + 1, Len(p)))
    ELSE s # <<>> /\ s[1] = p[1] /\ fnmatch(Tail(s), Tail(p))

\* "*" in f or "?" in f or "[" in f
IsGlob(f) ==
    Contains(Chars[f], "*") \/ Contains(Chars[f], "?") \/ Contains(Chars[f], "[")

----------------------------------------------------------------------------
(* Paths *)

Name(path) == IF path = <<>> THEN "" ELSE path[Len(path)]

Parent(path) == IF path = <<>> THEN <<>> ELSE SubSeq(path, 1, Len(path) - 1)

\* path.parents, as a set
Parents(path) == {SubSeq(path, 1, k) : k \in 0..(Len(path) - 1)}

\* path.relative_to(base), for base == path or base in path.parents
RelativeTo(path, base) == SubSeq(path, Len(base) + 1, Len(path))

\* str(relative path): the parts joined by "/", "." for the empty path
RECURSIVE JoinParts(_)
JoinParts(parts) ==
    IF parts = <<>> THEN <<>>
    ELSE IF Len(parts) = 1 THEN Chars[parts[1]]
    ELSE Chars[parts[1]] \o <<"/">> \o JoinParts(Tail(parts))

PathStr(rel) == IF rel = <<>> THEN <<".">> ELSE JoinParts(rel)

\* Path(f).resolve() for a raw name f given on the command line: the working
\* directory joined with f (the raw names of the model have no "/")
Resolve(dir, f) == Append(dir, f)

\* path.suffix[1:].lower() if path.suffix else "": the suffix starts at the
\* last "." of the name unless that is its first or its last character
Extension(path) ==
    LET s == Chars[Name(path)]
        dots == {i \in 1..Len(s) : s[i] = "."}
        i == IF dots = {} THEN 0 ELSE CHOOSE k \in dots : \A m \in dots : m <= k
    IN  IF 1 < i /\ i < Len(s) THEN Lower(SubSeq(s, i + 1, Len(s))) ELSE <<>>

\* a < b for Path: the lists of parts compared, each part as a str
RECURSIVE PathLess(_, _)
PathLess(a, b) ==
    IF b = <<>> THEN FALSE
    ELSE IF a = <<>> THEN TRUE
    ELSE IF a[1] # b[1] THEN StrLess(Chars[a[1]], Chars[b[1]])
    ELSE PathLess(Tail(a), Tail(b))

\* sorted(list(S)) for a set of paths
RECURSIVE SortedPaths(_)
SortedPaths(S) ==
    IF S = {} THEN <<>>
    ELSE LET m == CHOOSE x \in S : \A y \in S \ {x} : PathLess(x, y)
         IN  <<m>> \o SortedPaths(S \ {m})

----------------------------------------------------------------------------
(* The file system *)

R == <<"p", "r">>
SrcDir == <<"p", "r", "src">>
HiddenDir == <<"p", "r", "src", ".hidden">>
BuildDir == <<"p", "r", "build">>
DeepDir == <<"p", "r", "build", "x", "y">>
WorkDir == <<"w">>

\* a second project, with the four files of the end-to-end scenario only
ScenarioRoot == <<"p", "s">>
ScenarioSrc == <<"p", "s", "src">>
ScenarioHidden == <<"p", "s", "src", ".hidden">>
ScenarioBuild == <<"p", "s", "build">>

Dirs ==
    { <<>>, <<"p">>, WorkDir, R, SrcDir, HiddenDir, BuildDir,
      <<"p", "r", "build", "x">>, DeepDir,
      ScenarioRoot, ScenarioSrc, ScenarioHidden, ScenarioBuild }

Files ==
    { Append(R, "README.md"), Append(R, ".env"),
      Append(SrcDir, "main.py"), Append(HiddenDir, "ignored.py"),
      Append(BuildDir, "out.bin"), Append(DeepDir, "main.py"),
      Append(DeepDir, "out.bin") }

ScenarioFiles ==
    { Append(ScenarioRoot, "README.md"), Append(ScenarioSrc, "main.py"),
      Append(ScenarioHidden, "ignored.py"), Append(ScenarioBuild, "out.bin") }

\* files whose bytes are no UTF-8 text (build/x/y/out.bin is text)
Binary == { Append(BuildDir, "out.bin"), Append(ScenarioBuild, "out.bin") }

\* the listing of a directory as os.walk sees it: the names of its
\* subdirectories and of its files, in name order
SubDirs(dir) ==
    LET sorted == SortedPaths({<<Name(d)>> : d \in {e \in Dirs : e # <<>> /\ Parent(e) = dir}})
    IN  [i \in 1..Len(sorted) |-> sorted[i][1]]

FilesIn(dir) == {f \in Files \cup ScenarioFiles : Parent(f) = dir}

----------------------------------------------------------------------------
(* main: the options dictionary *)

\* dict.get(key, default)
Get(d, key, default) == IF key \in DOMAIN d THEN d[key] ELSE default

\* processing_options as main builds it from the parsed arguments, without
\* --ptype and with the default -o codebase.md; args.gitignore stands for the
\* lines load_gitignore reads from the .gitignore files of the base folders
ProcessingOptions(dir, args) ==
    [ base_folders |-> args.folders,
      output_file_resolved |-> Resolve(dir, "codebase.md"),
      extensions |-> args.extensions,
      exclude_extensions |-> args.exclude_extensions,
      exclude_folders_raw |-> args.exclude_folders,
      exclude_folders |-> {f \in args.exclude_folders : ~IsGlob(f)},
      exclude_files |-> {Resolve(dir, f) : f \in args.exclude_files},
      include_files |-> args.include_files,
      include_patterns |-> args.include_patterns,
      exclude_patterns |-> args.exclude_patterns,
      include_hidden |-> args.include_hidden,
      spec |-> args.gitignore ]

\* build_file_list, before its loop: the two keys it adds to options
PrepareOptions(dir, opts) ==
    [ k \in DOMAIN opts \cup {"resolved_exclude_folders", "exclude_folder_patterns"} |->
        IF k = "resolved_exclude_folders"
            THEN {Resolve(dir, f) : f \in opts.exclude_folders}
        ELSE IF k = "exclude_folder_patterns"
            THEN {f \in Get(opts, "exclude_folders_raw", {}) : IsGlob(f)}
        ELSE opts[k] ]

----------------------------------------------------------------------------
(* should_process_file *)

\* the index of the first base folder that is the path or one of its parents,
\* 0 when there is none
FindBase(path, base_folders) ==
    LET hits == {i \in 1..Len(base_folders) :
                    base_folders[i] = path \/ base_folders[i] \in Parents(path)}
    IN  IF hits = {} THEN 0 ELSE Min(hits)

\* the output file itself
IsOutputFile(path, opts) == path = opts.output_file_resolved

\* the hidden check as it would be if it looked at the parents only
HiddenHit_parentsOnly(path, rel, opts) ==
    /\ ~opts.include_hidden
    /\ \E q \in Parents(rel) : StartsWithDot(Chars[Name(q)])

\* the name of the file or of a parent in the relative path starts with "."
HiddenHit(path, rel, opts) ==
    /\ ~opts.include_hidden
    /\ LET path_components ==
              {Name(path)} \cup {Name(q) : q \in Parents(rel)}
       IN  \E part \in path_components :
              part # "." /\ StartsWithDot(Chars[part])

\* explicitly_included
ExplicitlyIncluded(path, rel, opts) ==
    \/ Name(path) \in opts.include_files
    \/ \E pattern \in opts.include_files :
          fnmatch(Chars[Name(path)], Chars[pattern])
    \/ \E pattern \in opts.include_patterns :
          fnmatch(PathStr(rel), Chars[pattern])

\* 1. specific file exclusions by resolved path or name
ExcludeFileHit(path, opts) ==
    \/ \E exc_path \in opts.exclude_files : path = exc_path
    \/ \E exc_path \in opts.exclude_files : Name(path) = Name(exc_path)

\* 2. pattern-based exclusion against the relative path
ExcludePatternHit(rel, opts) ==
    \E pattern \in opts.exclude_patterns : fnmatch(PathStr(rel), Chars[pattern])

\* PathSpec.match_file for gitignore lines without "/": such a line matches a
\* file or a directory of that name at any depth, and all below the directory
match_file(lines, rel) ==
    \E line \in lines : \E i \in 1..Len(rel) : fnmatch(Chars[rel[i]], Chars[line])

\* 3. gitignore check against the relative path (no lines: spec is None)
GitignoreHit(rel, opts) == opts.spec # {} /\ match_file(opts.spec, rel)

\* 4. a resolved excluded folder is the parent or one of the parents
ExcludedFolderHit(path, opts) ==
    \E resolved_exc_folder \in Get(opts, "resolved_exclude_folders", {}) :
        resolved_exc_folder = Parent(path) \/ resolved_exc_folder \in Parents(path)

\* a glob of exclude_folders matches a part of the relative path
ExcludedFolderPatternHit(rel, opts) ==
    \E i \in 1..Len(rel) :
        \E pattern \in Get(opts, "exclude_folder_patterns", {}) :
            fnmatch(Chars[rel[i]], Chars[pattern])

\* extension in options["exclude_extensions"]
DeniedExtension(path, opts) ==
    \E e \in opts.exclude_extensions : Chars[e] = Extension(path)

\* the allow-list gate as it would be if an empty list gated nothing
NotAllowedExtension_onlyWhenGiven(path, opts) ==
    /\ opts.extensions # {}
    /\ ~\E e \in opts.extensions : Chars[e] = Extension(path)

\* the allow-list gate as it would be if only an empty list closed it
NotAllowedExtension_emptyOnly(path, opts) ==
    opts.extensions = {}

\* not options.get("extensions") or extension not in options["extensions"]
NotAllowedExtension(path, opts) ==
    \/ opts.extensions = {}
    \/ ~\E e \in opts.extensions : Chars[e] = Extension(path)

\* should_process_file as it would be if an explicit inclusion returned at once
should_process_file_inclusionFirst(filepath, opts) ==
    LET path == filepath
        idx == FindBase(path, opts.base_folders)
    IN  IF idx = 0 THEN FALSE
        ELSE
        LET base_folder == opts.base_folders[idx]
            rel == RelativeTo(path, base_folder)
        IN  IF IsOutputFile(path, opts) THEN FALSE
            ELSE IF HiddenHit(path, rel, opts) THEN FALSE
            ELSE IF ExplicitlyIncluded(path, rel, opts) THEN TRUE
            ELSE IF ExcludeFileHit(path, opts) THEN FALSE
            ELSE IF ExcludePatternHit(rel, opts) THEN FALSE
            ELSE IF GitignoreHit(rel, opts) THEN FALSE
            ELSE IF ExcludedFolderHit(path, opts) THEN FALSE
            ELSE IF ExcludedFolderPatternHit(rel, opts) THEN FALSE
            ELSE IF DeniedExtension(path, opts) THEN FALSE
            ELSE IF NotAllowedExtension(path, opts) THEN FALSE
            ELSE TRUE

should_process_file(filepath, opts) ==
    LET path == filepath
        idx == FindBase(path, opts.base_folders)
    IN  IF idx = 0 THEN FALSE
        ELSE
        LET base_folder == opts.base_folders[idx]
            rel == RelativeTo(path, base_folder)
            explicitly_included == ExplicitlyIncluded(path, rel, opts)
        IN  IF IsOutputFile(path, opts) THEN FALSE
            ELSE IF HiddenHit(path, rel, opts) THEN FALSE
            ELSE IF ExcludeFileHit(path, opts) THEN FALSE
            ELSE IF ExcludePatternHit(rel, opts) THEN FALSE
            ELSE IF GitignoreHit(rel, opts) THEN FALSE
            ELSE IF ExcludedFolderHit(path, opts) THEN FALSE
            ELSE IF ExcludedFolderPatternHit(rel, opts) THEN FALSE
            ELSE IF ~explicitly_included /\ DeniedExtension(path, opts) THEN FALSE
            ELSE IF ~explicitly_included /\ NotAllowedExtension(path, opts) THEN FALSE
            ELSE TRUE

----------------------------------------------------------------------------
(* build_file_list *)

\* one iteration of the os.walk loop for the directory current_path: the
\* subdirectories os.walk descends into afterwards (none when the directory
\* is excluded) and the files of it that should_process_file accepts
WalkDirectory(current_path, resolved_base, opts) ==
    LET resolved_exclude_folders == opts.resolved_exclude_folders
        exclude_folder_patterns == opts.exclude_folder_patterns
        rel_dir == RelativeTo(current_path, resolved_base)
        relative_dir_path_str == PathStr(rel_dir)
        excluded_exact ==
            \E excluded \in resolved_exclude_folders :
                current_path = excluded \/ excluded \in Parents(current_path)
        excluded_hidden ==
            /\ ~opts.include_hidden
            /\ StartsWithDot(Chars[Name(current_path)])
            /\ current_path # resolved_base
        excluded_pattern ==
            \E pattern \in exclude_folder_patterns :
                \/ fnmatch(relative_dir_path_str, Chars[pattern])
                \/ fnmatch(Chars[Name(current_path)], Chars[pattern])
        keep(d) ==
            ~ \/ Append(current_path, d) \in resolved_exclude_folders
              \/ (~opts.include_hidden /\ StartsWithDot(Chars[d]))
              \/ \E pattern \in exclude_folder_patterns :
                    \/ fnmatch(Chars[d], Chars[pattern])
                    \/ fnmatch(PathStr(Append(rel_dir, d)), Chars[pattern])
    IN  IF excluded_exact \/ excluded_hidden \/ excluded_pattern
        THEN [dirs |-> <<>>, files |-> {}]
        ELSE [dirs |-> SelectSeq(SubDirs(current_path), keep),
              files |-> {f \in FilesIn(current_path) : should_process_file(f, opts)}]

\* the bookkeeping as it would be without the test for a file already known
AcceptFiles_overwrite(map, accepted, resolved_base) ==
    [f \in DOMAIN map \cup accepted |->
        IF f \in accepted THEN resolved_base ELSE map[f]]

\* if resolved_filepath not in files_to_process: add it and store its base
AcceptFiles(map, accepted, resolved_base) ==
    [f \in DOMAIN map \cup accepted |->
        IF f \in DOMAIN map THEN map[f] ELSE resolved_base]

\* the os.walk loop of one base folder run to its end: file_to_base_map
\* after the directories of stack and all they lead to were visited
RECURSIVE WalkAll(_, _, _, _)
WalkAll(stack, resolved_base, opts, map) ==
    IF stack = <<>> THEN map
    ELSE LET step == WalkDirectory(Head(stack), resolved_base, opts)
         IN  WalkAll([i \in 1..Len(step.dirs) |-> Append(Head(stack), step.dirs[i])]
                        \o Tail(stack),
                     resolved_base, opts,
                     AcceptFiles(map, step.files, resolved_base))

\* the loop of build_file_list over base_folders: the file_to_base_map it
\* returns; its keys are the files selected
RECURSIVE build_file_list(_, _, _)
build_file_list(base_folders, opts, map) ==
    IF base_folders = <<>> THEN map
    ELSE build_file_list(Tail(base_folders), opts,
                         WalkAll(<<base_folders[1]>>, base_folders[1], opts, map))

----------------------------------------------------------------------------
(* write_tree_structure *)

Max(S) == CHOOSE x \in S : \A y \in S : y <= x

\* s.startswith(t)
StartsWith(s, t) == Len(s) >= Len(t) /\ SubSeq(s, 1, Len(t)) = t

\* os.path.commonpath of a set of absolute paths
CommonPath(paths) ==
    LET p == CHOOSE x \in paths : TRUE
        common == {k \in 0..Len(p) :
                     \A q \in paths : Len(q) >= k /\ SubSeq(q, 1, k) = SubSeq(p, 1, k)}
    IN  SubSeq(p, 1, Max(common))

\* the common ancestor the tree is displayed under
CommonAncestor(base_folders) ==
    IF Len(base_folders) > 1
    THEN CommonPath({base_folders[i] : i \in 1..Len(base_folders)})
    ELSE Parent(base_folders[1])

\* tree[key], creating the key with an empty list when it is missing; the
\* dict is the sequence of its items in insertion order
TouchKey(tree, key) ==
    IF \E i \in 1..Len(tree) : tree[i].key = key THEN tree
    ELSE Append(tree, [key |-> key, files |-> <<>>])

\* the parents as they would be added if only the nearest one were
AddParents_nearestOnly(acc, parent) ==
    IF parent = <<>> \/ parent \in acc.processed_relative_paths THEN acc
    ELSE [tree |-> TouchKey(acc.tree, parent),
          processed_relative_paths |-> acc.processed_relative_paths \cup {parent}]

\* the while loop over the parents of a display path, the nearest first
RECURSIVE AddParents(_, _)
AddParents(acc, parent) ==
    IF parent = <<>> THEN acc
    ELSE AddParents(
            IF parent \notin acc.processed_relative_paths
            THEN [tree |-> TouchKey(acc.tree, parent),
                  processed_relative_paths |-> acc.processed_relative_paths \cup {parent}]
            ELSE acc,
            Parent(parent))

\* the loop over files_to_process that builds tree
RECURSIVE BuildTree(_, _, _)
BuildTree(acc, files, common_ancestor) ==
    IF files = <<>> THEN acc.tree
    ELSE LET display_rel_path == RelativeTo(files[1], common_ancestor)
             withParents == AddParents(acc, Parent(display_rel_path))
             touched == TouchKey(withParents.tree, Parent(display_rel_path))
         IN  BuildTree(
                [tree |-> [i \in 1..Len(touched) |->
                             IF touched[i].key = Parent(display_rel_path)
                             THEN [key |-> touched[i].key,
                                   files |-> Append(touched[i].files, Name(display_rel_path))]
                             ELSE touched[i]],
                 processed_relative_paths |->
                     withParents.processed_relative_paths \cup {display_rel_path}],
                Tail(files), common_ancestor)

\* sorted(names) for a set of file names
RECURSIVE SortedNames(_)
SortedNames(S) ==
    IF S = {} THEN <<>>
    ELSE LET m == CHOOSE x \in S : \A y \in S \ {x} : StrLess(Chars[x], Chars[y])
         IN  <<m>> \o SortedNames(S \ {m})

\* the four pieces a line prefix is made of: four spaces, the vertical bar
\* of a continued level, and the connectors of a last and of another entry
Blank == "    "
Bar == "|   "
Corner == "+-- "
Tee == "|-- "

\* the lines written for the directories from the i-th of sorted_paths on;
\* prefix_levels is the dict depth -> is_last.  A line is its prefix (the
\* pieces before the name), the name written and whether "/" follows it; path
\* records which entry of the tree the line was written for
RECURSIVE RenderFrom(_, _, _, _, _)
RenderFrom(i, sorted_paths, tree, prefix_levels, common_ancestor) ==
    IF i > Len(sorted_paths) THEN <<>>
    ELSE
    LET dir_rel_path == sorted_paths[i]
        depth == Len(dir_rel_path)
        is_last_entry ==
            \/ i = Len(sorted_paths)
            \/ /\ depth > 0
               /\ ~StartsWith(PathStr(sorted_paths[i + 1]),
                              PathStr(dir_rel_path) \o <<"/">>)
        line_prefix ==
            [d \in 1..depth |->
                IF d - 1 < depth - 1
                THEN IF Get(prefix_levels, d - 1, FALSE) THEN Blank ELSE Bar
                ELSE IF is_last_entry THEN Corner ELSE Tee]
        levels ==
            IF depth > 0
            THEN [k \in DOMAIN prefix_levels \cup {depth} |->
                    IF k = depth THEN is_last_entry ELSE prefix_levels[k]]
            ELSE prefix_levels
        dir_line ==
            IF depth > 0
            THEN [prefix |-> line_prefix, name |-> Name(dir_rel_path), folder |-> TRUE,
                  path |-> dir_rel_path]
            ELSE [prefix |-> <<>>, name |-> Name(common_ancestor), folder |-> TRUE,
                  path |-> dir_rel_path]
        entry == CHOOSE e \in {tree[k] : k \in 1..Len(tree)} : e.key = dir_rel_path
        files_in_dir == SortedNames({entry.files[k] : k \in 1..Len(entry.files)})
        file_line(j) ==
            [prefix |->
                [d \in 1..(depth + 1) |->
                    IF d - 1 < depth
                    THEN IF Get(levels, d - 1, FALSE) THEN Blank ELSE Bar
                    ELSE IF Get(levels, depth, FALSE) THEN Blank ELSE Bar]
                \o <<IF j = Len(files_in_dir) THEN Corner ELSE Tee>>,
             name |-> files_in_dir[j],
             folder |-> FALSE,
             path |-> Append(dir_rel_path, files_in_dir[j])]
    IN  <<dir_line>>
        \o [j \in 1..Len(files_in_dir) |-> file_line(j)]
        \o RenderFrom(i + 1, sorted_paths, tree, levels, common_ancestor)

\* the tree section as it would be if the keys of tree were not sorted
write_tree_structure_unsorted(files, base_folders) ==
    LET common_ancestor == CommonAncestor(base_folders)
        tree == BuildTree([tree |-> <<>>, processed_relative_paths |-> {}],
                          files, common_ancestor)
        sorted_paths == [k \in 1..Len(tree) |-> tree[k].key]
    IN  RenderFrom(1, sorted_paths, tree, <<>>, common_ancestor)

\* the lines of the tree section write_tree_structure appends
write_tree_structure(files, base_folders) ==
    LET common_ancestor == CommonAncestor(base_folders)
        tree == BuildTree([tree |-> <<>>, processed_relative_paths |-> {}],
                          files, common_ancestor)
        sorted_paths == SortedPaths({tree[k].key : k \in 1..Len(tree)})
    IN  RenderFrom(1, sorted_paths, tree, <<>>, common_ancestor)

----------------------------------------------------------------------------
(* process_file *)

\* an Optional value is a sequence of at most one element: <<>> is None
None == <<>>

Some(v) == <<v>>

\* normalize_path(path, base_folder)
normalize_path(path, base_folder) ==
    IF base_folder \notin Parents(path) /\ path # base_folder
    THEN IF Parent(path) = base_folder THEN Some(<<Name(path)>>) ELSE None
    ELSE Some(RelativeTo(path, base_folder))

\* the text read from a file: every file has a content of its own
Content(filepath) == <<"content of", filepath>>

\* the (relative_path, formatted_content) process_file returns, or None;
\* failing are the files whose read raises an error other than a decode error
process_file(filepath, base_folder, failing) ==
    LET relative_path == normalize_path(filepath, base_folder)
        file_extension ==
            IF Extension(filepath) # <<>> THEN Extension(filepath) ELSE Chars["txt"]
    IN  IF relative_path = None THEN None
        ELSE IF filepath \in failing THEN None
        ELSE IF filepath \in Binary
            THEN Some([relative_path |-> relative_path[1],
                       formatted_content |->
                           [label |-> relative_path[1],
                            fence |-> <<>>,
                            body |-> <<"[Binary file content not displayed]">>]])
        ELSE Some([relative_path |-> relative_path[1],
                   formatted_content |->
                       [label |-> relative_path[1],
                        fence |-> file_extension,
                        body |-> Content(filepath)]])

----------------------------------------------------------------------------
(* main: collecting and writing the content *)

\* processed_content[relative_path] = formatted_string, on the items of the
\* dict in insertion order: a key already present keeps its place
StoreItem(items, relative_path, formatted_string) ==
    IF \E i \in 1..Len(items) : items[i].key = relative_path
    THEN [i \in 1..Len(items) |->
            IF items[i].key = relative_path
            THEN [key |-> relative_path, value |-> formatted_string]
            ELSE items[i]]
    ELSE Append(items, [key |-> relative_path, value |-> formatted_string])

\* the items as they would be written without the sort
SortedItems_asInserted(items) == items

\* sorted(processed_content.items(), key=lambda item: item[0])
RECURSIVE SortedItems(_)
SortedItems(items) ==
    IF items = <<>> THEN <<>>
    ELSE LET idx == 1..Len(items)
             m == CHOOSE i \in idx :
                    \A j \in idx \ {i} : PathLess(items[i].key, items[j].key)
         IN  <<items[m]>> \o
             SortedItems([i \in 1..(Len(items) - 1) |->
                            IF i < m THEN items[i] ELSE items[i + 1]])

----------------------------------------------------------------------------
(* The runs of main *)

RootCandidates == {R, SrcDir, HiddenDir, DeepDir}

\* the lists of folders given with -f
RootLists ==
    UNION {[1..n -> RootCandidates] : n \in 1..MaxRoots}

\* the command lines of the runs
RunArgs ==
    [ folders : RootLists,
      extensions : {{}, {"py", "md"}},
      exclude_extensions : {{}},
      exclude_folders : {{}, {"build"}, {"b*"}},
      exclude_files : {{}},
      include_files : {{}, {".env"}},
      include_patterns : {{}},
      exclude_patterns : {{}},
      include_hidden : BOOLEAN,
      gitignore : {{}} ]

\* the command lines of the end-to-end scenario and of its neighbours
ScenarioArgs ==
    [ folders : {<<ScenarioRoot>>},
      extensions : {{"py", "md"}},
      exclude_extensions : {{}},
      exclude_folders : {{}, {"build"}},
      exclude_files : {{}},
      include_files : {{}, {"out.bin"}},
      include_patterns : {{}},
      exclude_patterns : {{}},
      include_hidden : BOOLEAN,
      gitignore : {{}} ]

\* command lines whose selection holds a hidden file next to main.py
IsolationArgs ==
    [ folders : {<<SrcDir>>, <<SrcDir, DeepDir>>},
      extensions : {{"py", "md"}},
      exclude_extensions : {{}},
      exclude_folders : {{}},
      exclude_files : {{}},
      include_files : {{}},
      include_patterns : {{}},
      exclude_patterns : {{}},
      include_hidden : {TRUE},
      gitignore : {{}} ]

\* command lines that select the binary file out.bin
BinaryArgs ==
    [ folders : {<<BuildDir>>, <<DeepDir, BuildDir>>},
      extensions : {{"py", "md"}},
      exclude_extensions : {{}},
      exclude_folders : {{}},
      exclude_files : {{}},
      include_files : {{"out.bin"}},
      include_patterns : {{}},
      exclude_patterns : {{}},
      include_hidden : {FALSE},
      gitignore : {{}} ]

\* a path that does not exist, and the lists of folders that name it or a file
MissingDir == <<"p", "q">>

InvalidRootLists ==
    { <<MissingDir>>, <<R, MissingDir>>, <<MissingDir, SrcDir>>,
      <<Append(R, "README.md"), SrcDir>> }

InvalidArgs ==
    [ folders : InvalidRootLists,
      extensions : {{"py", "md"}},
      exclude_extensions : {{}},
      exclude_folders : {{}},
      exclude_files : {{}},
      include_files : {{}},
      include_patterns : {{}},
      exclude_patterns : {{}},
      include_hidden : {FALSE},
      gitignore : {{}} ]

\* the stages at which the output document is opened
SinkFaultSets == {{}, {"header"}, {"tree"}, {"content"}, {"tree", "content"}}

NoProbe == [called |-> FALSE]

Init ==
    /\ \/ /\ cwd \in {R, WorkDir}
          /\ unreadable \in {{}, {Append(SrcDir, "main.py")}}
          /\ sink_faults = {}
          /\ \E args \in RunArgs : options = ProcessingOptions(cwd, args)
       \/ /\ cwd \in {ScenarioRoot, WorkDir}
          /\ unreadable \in SUBSET {Append(ScenarioRoot, "README.md"),
                                    Append(ScenarioSrc, "main.py")}
          /\ sink_faults \in SinkFaultSets
          /\ \E args \in ScenarioArgs : options = ProcessingOptions(cwd, args)
       \/ /\ cwd = R
          /\ unreadable \in {{Append(HiddenDir, "ignored.py")},
                              {Append(HiddenDir, "ignored.py"), Append(SrcDir, "main.py")}}
          /\ sink_faults = {}
          /\ \E args \in IsolationArgs : options = ProcessingOptions(cwd, args)
       \/ /\ cwd \in {R, WorkDir}
          /\ unreadable = {}
          /\ sink_faults = {}
          /\ \E args \in InvalidArgs \cup BinaryArgs :
                options = ProcessingOptions(cwd, args)
    /\ pc = "start"
    /\ root_idx = 0
    /\ walk_stack = <<>>
    /\ files_to_process = {}
    /\ file_to_base_map = <<>>
    /\ selection = <<>>
    /\ pending = {}
    /\ processed_content = <<>>
    /\ skipped_count = 0
    /\ doc = <<>>
    /\ probe = NoProbe

\* path_type(path_str) returns the path: it exists and is a directory
ValidFolder(path) == path \in Dirs

\* parser.parse_args() when path_type raises ArgumentTypeError for a folder:
\* argparse prints the error and exits with status 2
RejectFolders ==
    /\ pc = "start"
    /\ \E i \in 1..Len(options.base_folders) : ~ValidFolder(options.base_folders[i])
    /\ pc' = "usage"
    /\ UNCHANGED <<cwd, unreadable, sink_faults, options, root_idx, walk_stack,
                   files_to_process, file_to_base_map, selection, pending,
                   processed_content, skipped_count, doc, probe>>

\* build_file_list up to its loop over the base folders
StartBuild ==
    /\ pc = "start"
    /\ \A i \in 1..Len(options.base_folders) : ValidFolder(options.base_folders[i])
    /\ options' = PrepareOptions(cwd, options)
    /\ root_idx' = 1
    /\ walk_stack' = <<options.base_folders[1]>>
    /\ pc' = "walk"
    /\ UNCHANGED <<cwd, unreadable, sink_faults, files_to_process, file_to_base_map, selection,
                   pending, processed_content, skipped_count, doc, probe>>

\* one iteration of for root, dirs, files in os.walk(resolved_base)
WalkDir ==
    /\ pc = "walk"
    /\ walk_stack # <<>>
    /\ LET current_path == Head(walk_stack)
           resolved_base == options.base_folders[root_idx]
           step == WalkDirectory(current_path, resolved_base, options)
       IN  /\ walk_stack' =
                [i \in 1..Len(step.dirs) |-> Append(current_path, step.dirs[i])]
                \o Tail(walk_stack)
           /\ files_to_process' = files_to_process \cup step.files
           /\ file_to_base_map' = AcceptFiles(file_to_base_map, step.files, resolved_base)
    /\ UNCHANGED <<cwd, unreadable, sink_faults, options, pc, root_idx, selection, pending,
                   processed_content, skipped_count, doc, probe>>

\* os.walk of one base folder is exhausted: the next base folder
NextRoot ==
    /\ pc = "walk"
    /\ walk_stack = <<>>
    /\ root_idx < Len(options.base_folders)
    /\ root_idx' = root_idx + 1
    /\ walk_stack' = <<options.base_folders[root_idx + 1]>>
    /\ UNCHANGED <<cwd, unreadable, sink_faults, options, pc, files_to_process, file_to_base_map,
                   selection, pending, processed_content, skipped_count, doc, probe>>

\* return sorted(list(files_to_process)), file_to_base_map
FinishBuild ==
    /\ pc = "walk"
    /\ walk_stack = <<>>
    /\ root_idx = Len(options.base_folders)
    /\ selection' = SortedPaths(files_to_process)
    /\ pc' = "built"
    /\ UNCHANGED <<cwd, unreadable, sink_faults, options, root_idx, walk_stack, files_to_process,
                   file_to_base_map, pending, processed_content, skipped_count,
                   doc, probe>>

\* if not files_to_process: return
NoFiles ==
    /\ pc = "built"
    /\ selection = <<>>
    /\ pc' = "exit"
    /\ UNCHANGED <<cwd, unreadable, sink_faults, options, root_idx, walk_stack, files_to_process,
                   file_to_base_map, selection, pending, processed_content,
                   skipped_count, doc, probe>>

\* the header of the document and the tree section; a failure to open the
\* document for the header is logged and main returns, a failure inside
\* write_tree_structure is logged there and main goes on
WriteInitialStructure ==
    /\ pc = "built"
    /\ selection # <<>>
    /\ IF "header" \in sink_faults
       THEN /\ doc' = doc
            /\ pc' = "exit"
       ELSE /\ doc' = << [section |-> "header", folders |-> options.base_folders] >>
                       \o IF "tree" \in sink_faults
                          THEN <<>>
                          ELSE << [section |-> "tree",
                                   lines |-> write_tree_structure(
                                                selection, options.base_folders)] >>
            /\ pc' = "submit"
    /\ UNCHANGED <<cwd, unreadable, sink_faults, options, root_idx, walk_stack, files_to_process,
                   file_to_base_map, selection, pending, processed_content,
                   skipped_count, probe>>

\* executor.submit(process_file, ...) for every file of the selection
Submit ==
    /\ pc = "submit"
    /\ pending' = {selection[i] : i \in 1..Len(selection)}
    /\ pc' = "collect"
    /\ UNCHANGED <<cwd, unreadable, sink_faults, options, root_idx, walk_stack, files_to_process,
                   file_to_base_map, selection, processed_content, skipped_count,
                   doc, probe>>

\* one iteration of the loop over the completed futures in which the worker
\* itself appends its block to the document as soon as it has read the file
Collect_writing(filepath) ==
    /\ pc = "collect"
    /\ filepath \in pending
    /\ pending' = pending \ {filepath}
    /\ LET result == process_file(filepath, file_to_base_map[filepath], unreadable)
       IN  IF result # None
           THEN /\ processed_content' =
                     StoreItem(processed_content, result[1].relative_path,
                               result[1].formatted_content)
                /\ doc' = Append(doc, [section |-> "block",
                                       key |-> result[1].relative_path,
                                       text |-> result[1].formatted_content])
                /\ UNCHANGED skipped_count
           ELSE /\ skipped_count' = skipped_count + 1
                /\ UNCHANGED <<processed_content, doc>>
    /\ UNCHANGED <<cwd, unreadable, sink_faults, options, pc, root_idx, walk_stack,
                   files_to_process, file_to_base_map, selection, probe>>

\* one iteration of for future in as_completed(...): the future of any file
\* still pending may be the next to complete
Collect(filepath) ==
    /\ pc = "collect"
    /\ filepath \in pending
    /\ pending' = pending \ {filepath}
    /\ LET result == process_file(filepath, file_to_base_map[filepath], unreadable)
       IN  IF result # None
           THEN /\ processed_content' =
                     StoreItem(processed_content, result[1].relative_path,
                               result[1].formatted_content)
                /\ UNCHANGED skipped_count
           ELSE /\ skipped_count' = skipped_count + 1
                /\ UNCHANGED processed_content
    /\ UNCHANGED <<cwd, unreadable, sink_faults, options, pc, root_idx, walk_stack,
                   files_to_process, file_to_base_map, selection, doc, probe>>

\* the content blocks appended to the document, sorted by relative path; a
\* failure to open the document is logged and main returns
WriteContent ==
    /\ pc = "collect"
    /\ pending = {}
    /\ IF "content" \in sink_faults
       THEN /\ doc' = doc
            /\ pc' = "exit"
       ELSE /\ LET sorted_items == SortedItems(processed_content)
               IN  doc' = doc \o [i \in 1..Len(sorted_items) |->
                                    [section |-> "block",
                                     key |-> sorted_items[i].key,
                                     text |-> sorted_items[i].value]]
            /\ pc' = "written"
    /\ UNCHANGED <<cwd, unreadable, sink_faults, options, root_idx, walk_stack, files_to_process,
                   file_to_base_map, selection, pending, processed_content,
                   skipped_count, probe>>

\* the final summary line
Summary ==
    /\ pc = "written"
    /\ pc' = "done"
    /\ UNCHANGED <<cwd, unreadable, sink_faults, options, root_idx, walk_stack, files_to_process,
                   file_to_base_map, selection, pending, processed_content,
                   skipped_count, doc, probe>>

\* the exit status of the process: 2 when argparse reports an error, 0 when
\* main returns, which it does after every other end of a run
ExitStatus ==
    IF pc = "usage" THEN 2 ELSE 0

Next ==
    \/ RejectFolders
    \/ StartBuild
    \/ WalkDir
    \/ NextRoot
    \/ FinishBuild
    \/ NoFiles
    \/ WriteInitialStructure
    \/ Submit
    \/ \E filepath \in Files \cup ScenarioFiles : Collect(filepath)
    \/ WriteContent
    \/ Summary

Spec == Init /\ [][Next]_vars

----------------------------------------------------------------------------
(* should_process_file called on its own *)

\* the rule sets the classifier is called with
ClassifyArgs ==
    [ folders : {<<R>>, <<SrcDir>>, <<SrcDir, R>>},
      extensions : {{}, {"py", "md"}},
      exclude_extensions : {{}, {"md"}},
      exclude_folders : {{}, {"build"}, {"[b]uild"}, {"m*"}},
      exclude_files : {{}, {"main.py"}},
      include_files : {{}, {"README.md"}, {"?ain.py"}},
      include_patterns : {{}, {"src/*"}},
      exclude_patterns : {{}, {"*.py"}},
      include_hidden : BOOLEAN,
      gitignore : {{}, {"*.md"}} ]

\* the paths it is called on: the files, and the output document of a former run
Candidates == Files \cup {Append(R, "codebase.md")}

InitClassify ==
    /\ cwd \in {R, WorkDir}
    /\ unreadable = {}
    /\ sink_faults = {}
    /\ \E args \in ClassifyArgs :
          options = PrepareOptions(cwd, ProcessingOptions(cwd, args))
    /\ pc = "classify"
    /\ root_idx = 0
    /\ walk_stack = <<>>
    /\ files_to_process = {}
    /\ file_to_base_map = <<>>
    /\ selection = <<>>
    /\ pending = {}
    /\ processed_content = <<>>
    /\ skipped_count = 0
    /\ doc = <<>>
    /\ probe = NoProbe

Classify(filepath) ==
    /\ pc = "classify"
    /\ probe' = [called |-> TRUE,
                 filepath |-> filepath,
                 result |-> should_process_file(filepath, options)]
    /\ UNCHANGED <<cwd, unreadable, sink_faults, options, pc, root_idx, walk_stack,
                   files_to_process, file_to_base_map, selection, pending,
                   processed_content, skipped_count, doc>>

NextClassify == \E filepath \in Candidates : Classify(filepath)

SpecClassify == InitClassify /\ [][NextClassify]_vars

----------------------------------------------------------------------------
(* write_tree_structure called on its own *)

\* the lists of base folders it is called with
TreeRootLists ==
    { <<R>>, <<SrcDir>>, <<R, SrcDir>>, <<SrcDir, DeepDir>>, <<ScenarioRoot>> }

\* the files below one of the base folders
FilesBelow(base_folders) ==
    {f \in Files \cup ScenarioFiles : FindBase(f, base_folders) # 0}

\* the lists of files it is called with: up to MaxTreeFiles files below the
\* base folders, each once, in any order
TreeFileLists(base_folders) ==
    UNION { {files \in [1..n -> FilesBelow(base_folders)] :
                \A i, j \in 1..n : files[i] = files[j] => i = j}
            : n \in 1..MaxTreeFiles }

TreeArgs(base_folders) ==
    [ folders |-> base_folders,
      extensions |-> {},
      exclude_extensions |-> {},
      exclude_folders |-> {},
      exclude_files |-> {},
      include_files |-> {},
      include_patterns |-> {},
      exclude_patterns |-> {},
      include_hidden |-> TRUE,
      gitignore |-> {} ]

InitTree ==
    /\ cwd = R
    /\ unreadable = {}
    /\ sink_faults = {}
    /\ \E base_folders \in TreeRootLists :
          /\ options = PrepareOptions(cwd, ProcessingOptions(cwd, TreeArgs(base_folders)))
          /\ selection \in TreeFileLists(base_folders)
    /\ files_to_process = {selection[i] : i \in 1..Len(selection)}
    /\ file_to_base_map =
          [f \in files_to_process |->
              options.base_folders[FindBase(f, options.base_folders)]]
    /\ pc = "tree"
    /\ root_idx = 0
    /\ walk_stack = <<>>
    /\ pending = {}
    /\ processed_content = <<>>
    /\ skipped_count = 0
    /\ doc = <<>>
    /\ probe = NoProbe

\* write_tree_structure(files_to_process, file_to_base_map, output_filepath,
\* base_folders) appending the tree section to an empty document
RenderTree ==
    /\ pc = "tree"
    /\ doc' = << [section |-> "tree",
                  lines |-> write_tree_structure(selection, options.base_folders)] >>
    /\ pc' = "rendered"
    /\ UNCHANGED <<cwd, unreadable, sink_faults, options, root_idx, walk_stack,
                   files_to_process, file_to_base_map, selection, pending,
                   processed_content, skipped_count, probe>>

NextTree == RenderTree

SpecTree == InitTree /\ [][NextTree]_vars

----------------------------------------------------------------------------
(* The classifier's precedence rules *)

\* the path of the probed file relative to the base folder the classifier
\* takes for it (the path itself when no base folder holds it)
ProbeRel ==
    LET idx == FindBase(probe.filepath, options.base_folders)
    IN  IF idx = 0 THEN probe.filepath
        ELSE RelativeTo(probe.filepath, options.base_folders[idx])

ProbeHasBase == FindBase(probe.filepath, options.base_folders) # 0

\* one of the exclusion rules holds of the probed file
ProbeExcluded ==
    \/ IsOutputFile(probe.filepath, options)
    \/ HiddenHit(probe.filepath, ProbeRel, options)
    \/ ExcludeFileHit(probe.filepath, options)
    \/ ExcludePatternHit(ProbeRel, options)
    \/ GitignoreHit(ProbeRel, options)
    \/ ExcludedFolderHit(probe.filepath, options)
    \/ ExcludedFolderPatternHit(ProbeRel, options)

ProbeIncluded == ExplicitlyIncluded(probe.filepath, ProbeRel, options)

ProbeExtensionAllowed ==
    \E e \in options.extensions : Chars[e] = Extension(probe.filepath)

\* C1: a file that is the output document, has a hidden component (hidden
\* policy off), matches an excluded file, an exclude pattern or the ignore
\* matcher, or lies under an excluded folder, is excluded by
\* should_process_file, also when include_files or include_patterns names it.
C1_ExclusionBeatsInclusion ==
    (probe.called /\ ProbeExcluded) => probe.result = FALSE

\* an explicitly included file that an exclude pattern matches was classified
C1_Witness ==
    /\ probe.called
    /\ ProbeHasBase
    /\ ProbeIncluded
    /\ ExcludePatternHit(ProbeRel, options)
    /\ probe.result = FALSE

\* C2: a file whose lowercase extension is in the denied-extension set is
\* excluded by should_process_file, also when it is explicitly included.
C2_DeniedExtensionWins ==
    (probe.called /\ DeniedExtension(probe.filepath, options))
        => probe.result = FALSE

\* C3 as stated: a file not explicitly included, hit by no exclusion rule and
\* with no denied extension is included whenever the allow-list is empty, and
\* excluded only when the allow-list is non-empty and lacks its extension.
C3_EmptyAllowListIncludes ==
    (/\ probe.called
     /\ ProbeHasBase
     /\ ~ProbeIncluded
     /\ ~ProbeExcluded
     /\ ~DeniedExtension(probe.filepath, options))
        => /\ options.extensions = {} => probe.result = TRUE
           /\ probe.result = FALSE =>
                (options.extensions # {} /\ ~ProbeExtensionAllowed)

\* C3 amended: a file not explicitly included, hit by no exclusion rule and
\* with no denied extension is included exactly when the allow-list contains
\* its extension; with an empty allow-list it is excluded.
C3_AllowListGate ==
    (/\ probe.called
     /\ ProbeHasBase
     /\ ~ProbeIncluded
     /\ ~ProbeExcluded
     /\ ~DeniedExtension(probe.filepath, options))
        => (probe.result = TRUE <=> ProbeExtensionAllowed)

\* such a file was classified with an empty allow-list, and excluded
C3_Witness ==
    /\ probe.called
    /\ ProbeHasBase
    /\ ~ProbeIncluded
    /\ ~ProbeExcluded
    /\ ~DeniedExtension(probe.filepath, options)
    /\ options.extensions = {}
    /\ probe.result = FALSE

----------------------------------------------------------------------------
(* The selection of build_file_list *)

\* the directories strictly between a base folder and a file below it
DirsBetween(base, f) ==
    {d \in Parents(f) : base \in Parents(d)}

\* a folder name that --exclude-folders names, literally or by a glob
NamedExcluded(name) ==
    \E entry \in options.exclude_folders_raw :
        IF IsGlob(entry) THEN fnmatch(Chars[name], Chars[entry]) ELSE name = entry

\* C4: no selected file lies, at any depth, under a directory below its root
\* whose name is a literal entry of the folder-exclusion set or matches a glob
\* entry of it, whatever the working directory.
C4_ExcludedFoldersPruned ==
    \A f \in files_to_process :
        \A d \in DirsBetween(file_to_base_map[f], f) : ~NamedExcluded(Name(d))

\* the selection lists no path twice
NoDuplicates ==
    \A i, j \in 1..Len(selection) : selection[i] = selection[j] => i = j

\* C5: every resolved path appears at most once in the selection, its entry in
\* file_to_base_map is the root whose walk accepted it first, and no later
\* walk overwrites that entry.
C5_FirstOwnerKept ==
    /\ [](NoDuplicates /\ DOMAIN file_to_base_map = files_to_process)
    /\ [][/\ \A f \in files_to_process :
                /\ f \in files_to_process'
                /\ file_to_base_map'[f] = file_to_base_map[f]
          /\ \A f \in files_to_process' \ files_to_process :
                file_to_base_map'[f] = options.base_folders[root_idx]]_vars

\* a file below two different roots is selected and belongs to the first
C5_Witness ==
    /\ pc = "built"
    /\ \E f \in files_to_process :
        \E i, j \in 1..Len(options.base_folders) :
            /\ i < j
            /\ options.base_folders[i] # options.base_folders[j]
            /\ options.base_folders[i] \in Parents(f)
            /\ options.base_folders[j] \in Parents(f)
            /\ \A d \in DirsBetween(options.base_folders[j], f) :
                    ~StartsWithDot(Chars[Name(d)])
            /\ file_to_base_map[f] = options.base_folders[i]

\* C9: with the hidden policy off, no selected file has a name, or a directory
\* between its owning base and itself, that starts with ".", whatever the
\* roots and the include overrides.
C9_NoHiddenSelected ==
    ~options.include_hidden =>
        \A f \in files_to_process :
            /\ ~StartsWithDot(Chars[Name(f)])
            /\ \A d \in DirsBetween(file_to_base_map[f], f) :
                    ~StartsWithDot(Chars[Name(d)])

\* .env is named by --include-files, the folder that holds it was walked and
\* gave another file, and .env is not selected
C9_Witness ==
    /\ pc = "built"
    /\ ~options.include_hidden
    /\ ".env" \in options.include_files
    /\ Append(R, "README.md") \in files_to_process
    /\ Append(R, ".env") \notin files_to_process

\* should_process_file would accept the file were the root its only base
AcceptedUnder(root, f) ==
    should_process_file(f, [options EXCEPT !.base_folders = <<root>>])

\* C10: with the hidden policy off, a non-hidden file directly in a configured
\* root whose own name starts with "." is selected when it passes every other
\* rule, whatever the list of roots.
C10_HiddenRootKept ==
    (pc = "built" /\ ~options.include_hidden) =>
        \A i \in 1..Len(options.base_folders) :
            LET root == options.base_folders[i]
            IN  StartsWithDot(Chars[Name(root)]) =>
                    \A f \in FilesIn(root) :
                        (~StartsWithDot(Chars[Name(f)]) /\ AcceptedUnder(root, f))
                            => f \in files_to_process

----------------------------------------------------------------------------
(* The content blocks of the document *)

ContentBlocks == SelectSeq(doc, LAMBDA entry : entry.section = "block")

Written == pc \in {"written", "done"}

\* C6: whatever the order in which the tasks complete, the content blocks of
\* the document are in ascending order of their relative-path key.
C6_BlocksAscending ==
    Written =>
        \A i, j \in 1..Len(ContentBlocks) :
            i < j => PathLess(ContentBlocks[i].key, ContentBlocks[j].key)

\* three blocks or more are written and the results came in another order
C6_Witness ==
    /\ Written
    /\ Len(ContentBlocks) >= 3
    /\ \E i, j \in 1..Len(processed_content) :
          i < j /\ PathLess(processed_content[j].key, processed_content[i].key)

\* the items of processed_content when the results come in the order of files
RECURSIVE CollectInOrder(_, _)
CollectInOrder(files, items) ==
    IF files = <<>> THEN items
    ELSE LET result == process_file(files[1], file_to_base_map[files[1]], unreadable)
         IN  CollectInOrder(Tail(files),
                 IF result # None
                 THEN StoreItem(items, result[1].relative_path,
                                result[1].formatted_content)
                 ELSE items)

\* C7: the content blocks written are the same for every order of completion:
\* they are those written when the tasks complete in the order of the selection.
C7_OrderIndependent ==
    Written =>
        LET reference == SortedItems(CollectInOrder(selection, <<>>))
        IN  /\ Len(ContentBlocks) = Len(reference)
            /\ \A i \in 1..Len(reference) :
                  /\ ContentBlocks[i].key = reference[i].key
                  /\ ContentBlocks[i].text = reference[i].value

\* C8: no two selected files have the same relative-path key, and every
\* selected file that was read has a block of its own in the document.
C8_UniqueKeys ==
    /\ pc \in {"submit", "collect", "written", "done"} =>
          \A f, g \in files_to_process :
              f # g => normalize_path(f, file_to_base_map[f])
                         # normalize_path(g, file_to_base_map[g])
    /\ Written =>
          Len(ContentBlocks) =
              Cardinality({f \in files_to_process :
                  process_file(f, file_to_base_map[f], unreadable) # None})

----------------------------------------------------------------------------
(* The end-to-end scenario *)

\* the run of the scenario: the scenario project is the only root, the
\* allow-list is {py, md}, --exclude-folders names build, nothing is
\* explicitly included and the hidden policy is off
ScenarioRun ==
    /\ options.base_folders = <<ScenarioRoot>>
    /\ options.extensions = {"py", "md"}
    /\ options.exclude_folders_raw = {"build"}
    /\ options.include_files = {}
    /\ ~options.include_hidden

\* the lines of the tree section of the document
TreeLines ==
    IF \E i \in 1..Len(doc) : doc[i].section = "tree"
    THEN doc[CHOOSE i \in 1..Len(doc) : doc[i].section = "tree"].lines
    ELSE <<>>

\* the tree or a content block of the document names the folder
Mentions(folder) ==
    \/ \E i \in 1..Len(TreeLines) :
          \/ TreeLines[i].name = folder
          \/ \E k \in 1..Len(TreeLines[i].path) : TreeLines[i].path[k] = folder
    \/ \E i \in 1..Len(ContentBlocks) :
          \/ \E k \in 1..Len(ContentBlocks[i].key) : ContentBlocks[i].key[k] = folder
          \/ \E k \in 1..Len(ContentBlocks[i].text.label) :
                ContentBlocks[i].text.label[k] = folder

\* C11: in the run of the scenario the selection is exactly src/main.py and
\* README.md of the root, and neither the tree nor a content block of the
\* document mentions build or .hidden.
C11_Scenario ==
    ScenarioRun =>
        /\ files_to_process \subseteq
                {Append(ScenarioSrc, "main.py"), Append(ScenarioRoot, "README.md")}
        /\ pc \notin {"start", "walk"} =>
                /\ files_to_process =
                      {Append(ScenarioSrc, "main.py"), Append(ScenarioRoot, "README.md")}
                /\ {selection[i] : i \in 1..Len(selection)} = files_to_process
        /\ ~Mentions("build")
        /\ ~Mentions(".hidden")

\* the scenario was run from another directory, both files were read, and
\* the tree and the two blocks are in the document
C11_Witness ==
    /\ ScenarioRun
    /\ cwd = WorkDir
    /\ pc = "done"
    /\ Len(TreeLines) >= 4
    /\ Len(ContentBlocks) = 2

----------------------------------------------------------------------------
(* Failures of the output document *)

\* the run is over
Terminated == pc \in {"usage", "exit", "done"}

\* opening the document for the header has failed
HeaderFailed ==
    /\ "header" \in sink_faults
    /\ selection # <<>>
    /\ pc = "exit"

\* opening the document for the tree section has failed
TreeFailed ==
    /\ "header" \notin sink_faults
    /\ "tree" \in sink_faults
    /\ pc \in {"submit", "collect", "written", "exit", "done"}

\* opening the document for the content blocks has failed
ContentFailed ==
    /\ "header" \notin sink_faults
    /\ "content" \in sink_faults
    /\ selection # <<>>
    /\ pc = "exit"

SinkFailed == HeaderFailed \/ TreeFailed \/ ContentFailed

\* C12: once writing the header, the tree section or the content blocks has
\* failed, the run is over, its exit status is not zero, and the document
\* holds no content block written after the failure.
C12_SinkFailureFatal ==
    SinkFailed =>
        /\ Terminated
        /\ ExitStatus # 0
        /\ TreeFailed => ContentBlocks = <<>>

----------------------------------------------------------------------------
(* Files that cannot be read *)

\* the selected files whose read raises an error other than a decode error
FailedReads == files_to_process \cap unreadable

\* the document holds the block of the file: its key and its own content
BlockWritten(f) ==
    \E i \in 1..Len(ContentBlocks) :
        /\ Some(ContentBlocks[i].key) = normalize_path(f, file_to_base_map[f])
        /\ ContentBlocks[i].text =
              process_file(f, file_to_base_map[f], {})[1].formatted_content

\* C13: when the reads of some selected files fail with an error other than
\* a decode error, the block of every other selected file is still written,
\* every failed file adds exactly one to the skipped count, and the run ends
\* with its summary.
C13_ReadFailuresIsolated ==
    (FailedReads # {} /\ sink_faults = {}) =>
        /\ pc \in {"collect", "written", "done"} =>
                skipped_count = Cardinality(FailedReads \ pending)
        /\ Written =>
                \A f \in files_to_process \ FailedReads : BlockWritten(f)
        /\ Terminated => pc = "done"

----------------------------------------------------------------------------
(* Files that cannot be decoded *)

\* the selected files whose bytes cannot be decoded, and can be read
UndecodableReads == (files_to_process \cap Binary) \ unreadable

\* C14: for every selected file that cannot be decoded, process_file returns
\* a block made of the path label and the placeholder, that block is written
\* to the document, and the file is not counted as skipped.
C14_DecodeFailureNotSkipped ==
    sink_faults = {} =>
        /\ \A f \in UndecodableReads :
              LET result == process_file(f, file_to_base_map[f], unreadable)
              IN  /\ result # None
                  /\ Some(result[1].relative_path) = normalize_path(f, file_to_base_map[f])
                  /\ result[1].formatted_content =
                        [label |-> result[1].relative_path,
                         fence |-> <<>>,
                         body |-> <<"[Binary file content not displayed]">>]
        /\ pc \in {"collect", "written", "done"} =>
              skipped_count = Cardinality(FailedReads \ pending)
        /\ Written => \A f \in UndecodableReads : BlockWritten(f)

----------------------------------------------------------------------------
(* Folders that are no directories *)

InvalidRoots ==
    {i \in 1..Len(options.base_folders) : ~ValidFolder(options.base_folders[i])}

\* file_to_base_map of the run that is given the valid folders only
SelectionOfValidRoots ==
    LET valid == SelectSeq(options.base_folders, ValidFolder)
    IN  build_file_list(valid,
                        PrepareOptions(cwd, [options EXCEPT !.base_folders = valid]),
                        <<>>)

\* C15: when a configured root does not exist or is no directory, the run is
\* not ended for it: the root is skipped, and the files selected are those
\* selected when only the other roots are configured.
C15_InvalidRootSkipped ==
    InvalidRoots # {} =>
        /\ pc # "usage"
        /\ Terminated => file_to_base_map = SelectionOfValidRoots

----------------------------------------------------------------------------
(* The rendered tree *)

\* the entry of line i of the tree: its path relative to the display ancestor
LinePath(i) == TreeLines[i].path

\* p is a directory above q
IsAbove(p, q) == Len(p) < Len(q) /\ SubSeq(q, 1, Len(p)) = p

\* lines i and j are for two children of one directory
Siblings(i, j) ==
    /\ i # j
    /\ LinePath(i) # <<>>
    /\ LinePath(j) # <<>>
    /\ Parent(LinePath(i)) = Parent(LinePath(j))

\* C16: in the rendered tree the line of a directory comes before the lines
\* of everything below it, and the children of one directory, files and
\* subdirectories together, come in ascending order of their names.
C16_TreeSiblingOrder ==
    \A i, j \in 1..Len(TreeLines) :
        /\ (TreeLines[i].folder /\ IsAbove(LinePath(i), LinePath(j))) => i < j
        /\ (Siblings(i, j) /\ i < j) =>
              StrLess(Chars[TreeLines[i].name], Chars[TreeLines[j].name])

\* the paths of the selected files relative to the display ancestor
DisplayPaths ==
    {RelativeTo(f, CommonAncestor(options.base_folders)) : f \in files_to_process}

\* the directories above a selected file and below the display ancestor
AncestorDirs ==
    UNION {Parents(p) \ {<<>>} : p \in DisplayPaths}

\* C17 as stated: the rendered tree has exactly one file line for every
\* selected file, exactly one directory line for every directory between the
\* display ancestor and a selected file, and no other line.
C17_TreeComplete ==
    TreeLines # <<>> =>
        /\ \A p \in DisplayPaths :
              Cardinality({i \in 1..Len(TreeLines) :
                  ~TreeLines[i].folder /\ LinePath(i) = p
                      /\ TreeLines[i].name = Name(p)}) = 1
        /\ \A d \in AncestorDirs :
              Cardinality({i \in 1..Len(TreeLines) :
                  TreeLines[i].folder /\ LinePath(i) = d
                      /\ TreeLines[i].name = Name(d)}) = 1
        /\ \A i \in 1..Len(TreeLines) :
              IF TreeLines[i].folder
              THEN LinePath(i) \in AncestorDirs
              ELSE LinePath(i) \in DisplayPaths

\* a selected file lies in the display ancestor itself
FileInDisplayAncestor == \E p \in DisplayPaths : Len(p) = 1

\* C17 amended: the rendered tree has exactly one file line for every
\* selected file, exactly one directory line for every directory between the
\* display ancestor and a selected file, one line for the display ancestor
\* itself exactly when a selected file lies directly in it, and no other line.
C17_TreeCompleteWithRoot ==
    TreeLines # <<>> =>
        /\ \A p \in DisplayPaths :
              Cardinality({i \in 1..Len(TreeLines) :
                  ~TreeLines[i].folder /\ LinePath(i) = p
                      /\ TreeLines[i].name = Name(p)}) = 1
        /\ \A d \in AncestorDirs :
              Cardinality({i \in 1..Len(TreeLines) :
                  TreeLines[i].folder /\ LinePath(i) = d
                      /\ TreeLines[i].name = Name(d)}) = 1
        /\ Cardinality({i \in 1..Len(TreeLines) :
                  TreeLines[i].folder /\ LinePath(i) = <<>>
                      /\ TreeLines[i].name = Name(CommonAncestor(options.base_folders))})
              = IF FileInDisplayAncestor THEN 1 ELSE 0
        /\ \A i \in 1..Len(TreeLines) :
              IF TreeLines[i].folder
              THEN LinePath(i) \in AncestorDirs \cup {<<>>}
              ELSE LinePath(i) \in DisplayPaths

\* a tree was rendered for files in the display ancestor and files two
\* directories below it
C17_Witness ==
    /\ pc = "rendered"
    /\ FileInDisplayAncestor
    /\ \E p \in DisplayPaths : Len(p) >= 3
    /\ Len(TreeLines) >= 5

\* line i is the last line for a child of its directory
LastSibling(i) == ~\E j \in (i + 1)..Len(TreeLines) : Siblings(i, j)

\* the piece of the prefix written next to the name
Connector(i) == TreeLines[i].prefix[Len(TreeLines[i].prefix)]

\* C18: in the rendered tree an entry is drawn with the terminal connector
\* exactly when it is the last of the children of its directory, and with the
\* continuing connector otherwise.
C18_TreeConnectors ==
    \A i \in 1..Len(TreeLines) :
        LinePath(i) # <<>> =>
            /\ TreeLines[i].prefix # <<>>
            /\ Connector(i) = IF LastSibling(i) THEN Corner ELSE Tee

\* the line of the directory d
LineOf(d) ==
    CHOOSE i \in 1..Len(TreeLines) : TreeLines[i].folder /\ LinePath(i) = d

\* C19: in every line of the rendered tree the column of the prefix that
\* stands for the ancestor at a shallower depth d is blank when that ancestor
\* is the last of the children of its directory and a vertical bar otherwise.
C19_TreeContinuation ==
    \A i \in 1..Len(TreeLines) :
        \A d \in 1..(Len(LinePath(i)) - 1) :
            /\ d <= Len(TreeLines[i].prefix)
            /\ TreeLines[i].prefix[d] =
                  IF LastSibling(LineOf(SubSeq(LinePath(i), 1, d))) THEN Blank ELSE Bar

\* C20: the tree section is the same for every order of the list of files
\* write_tree_structure is called with: it is the one rendered for the list
\* in ascending order.
C20_TreeOrderIndependent ==
    pc = "rendered" =>
        TreeLines = write_tree_structure(SortedPaths(files_to_process),
                                         options.base_folders)

\* a tree was rendered for three files or more given in descending order
C20_Witness ==
    /\ pc = "rendered"
    /\ Len(selection) >= 3
    /\ \A i \in 1..(Len(selection) - 1) : PathLess(selection[i + 1], selection[i])
    /\ Len(TreeLines) >= 5


\* ---------------------------------------------------------------------------
\* C21: writes to the document and the worker tasks

\* the worker tasks have been started and not all of them have been collected
WorkersRunning == pc = "collect" /\ pending # {}

\* the document is extended by content blocks only
AppendsBlocks ==
    /\ Len(doc') > Len(doc)
    /\ SubSeq(doc', 1, Len(doc)) = doc
    /\ \A i \in (Len(doc) + 1)..Len(doc') : doc'[i].section = "block"

\* C21 as stated: the document is written exactly once, and only after every
\* worker task has completed; there is no write before the workers are
\* started, none while a worker is still running, and none by a worker.
C21_SingleWriteAfterJoin ==
    [][doc' # doc => (doc = <<>> /\ pc = "collect" /\ pending = {})]_vars

\* C21 amended: the document is written by the main flow only and never while
\* a worker task is running: the header and the tree section are written to
\* the empty document before the workers are started, the content blocks are
\* appended in one write after every worker task has completed, and no other
\* step changes the document.
C21_WritesOutsideWorkers ==
    [][doc' # doc =>
         /\ ~WorkersRunning
         /\ ~WorkersRunning'
         /\ \/ /\ pc = "built"
               /\ doc = <<>>
               /\ pc' = "submit"
               /\ doc'[1].section = "header"
               /\ \A i \in 2..Len(doc') : doc'[i].section = "tree"
            \/ /\ pc = "collect"
               /\ pending = {}
               /\ pc' = "written"
               /\ ContentBlocks = <<>>
               /\ AppendsBlocks]_vars

\* a run ended with the header, the tree section and two content blocks or
\* more in the document, after a worker had reported a skipped file
C21_Witness ==
    /\ pc = "done"
    /\ Len(doc) >= 4
    /\ doc[1].section = "header"
    /\ doc[2].section = "tree"
    /\ Len(ContentBlocks) >= 2
    /\ skipped_count >= 1


\* ---------------------------------------------------------------------------
\* C22: the options during a run

\* the decisions of the classifier, under the options opts, on the files of
\* the file system
Decisions(opts) ==
    [f \in Files \cup ScenarioFiles |-> should_process_file(f, opts)]

\* C22: no step of a run changes the options, neither build_file_list nor
\* should_process_file, and so the classifier decides every path in the same
\* way before, during and after the walk.
C22_OptionsReadOnly ==
    [][/\ options' = options
       /\ Decisions(options') = Decisions(options)]_vars


\* ---------------------------------------------------------------------------
\* C23: folder globs and the name of the file

\* the options without any excluded folder
WithoutFolderRules(opts) ==
    [opts EXCEPT !["resolved_exclude_folders"] = {},
                 !["exclude_folder_patterns"] = {}]

\* a glob of exclude_folders matches the name of the file
FolderGlobHitsName(filepath, opts) ==
    \E pattern \in opts.exclude_folder_patterns :
        fnmatch(Chars[Name(filepath)], Chars[pattern])

\* an excluded folder, named or matched by a glob, is among the directories
\* that hold the file
FolderRuleHitsAncestor(filepath, rel, opts) ==
    \/ ExcludedFolderHit(filepath, opts)
    \/ \E i \in 1..(Len(rel) - 1) :
          \E pattern \in opts.exclude_folder_patterns :
              fnmatch(Chars[rel[i]], Chars[pattern])

\* C23: the globs of exclude_folders apply to the directories that hold a
\* file only: a file whose own name matches such a glob, while no directory
\* between its base folder and itself matches any excluded folder, is decided
\* as if there were no excluded folder at all.
C23_FolderGlobsOnAncestors ==
    ( /\ probe.called
      /\ ProbeHasBase
      /\ FolderGlobHitsName(probe.filepath, options)
      /\ ~FolderRuleHitsAncestor(probe.filepath, ProbeRel, options) )
    => probe.result = should_process_file(probe.filepath, WithoutFolderRules(options))


\* ---------------------------------------------------------------------------
\* C24: the selection and the order of the base folders

\* the orders of n base folders: the permutations of 1..n
Orders(n) ==
    {p \in [1..n -> 1..n] : \A i, j \in 1..n : p[i] = p[j] => i = j}

\* the set of files build_file_list selects when the base folders are given
\* in the order roots
SelectionSet(roots) ==
    DOMAIN build_file_list(roots, [options EXCEPT !.base_folders = roots], <<>>)

\* C24: the set of files build_file_list selects is the same for every order
\* of the list of base folders; only the base folder a file belongs to may
\* differ.
C24_SelectionOrderIndependent ==
    pc = "built" =>
        \A p \in Orders(Len(options.base_folders)) :
            SelectionSet([i \in 1..Len(options.base_folders) |->
                            options.base_folders[p[i]]]) = files_to_process


\* ---------------------------------------------------------------------------
\* C25: the counts of the summary

\* C25: in every run that reaches the summary, the number of files it reports
\* as written, len(processed_content), and the number it reports as skipped,
\* skipped_count, add up to the number of files of the selection, whatever
\* the order in which the tasks complete.
C25_SummaryCountsAddUp ==
    pc = "done" => Len(processed_content) + skipped_count = Len(selection)

====
